---- MODULE Spec2Model ----
(***************************************************************************)
(* Model of the crawl engine of AI-Skill-Generator, src/scraper_engine.py: *)
(* ScraperEngine.run (seeding, initial batch, process loop, refill,        *)
(* finalizing), the worker pool it submits to, and process_url with the    *)
(* retry strategy mounted on the session.                                  *)
(*                                                                         *)
(* URLs are small naturals.  A page's content (the links it yields) and a  *)
(* server's answers are read when the code reads them: they are inputs of  *)
(* the action that performs the read.                                      *)
(***************************************************************************)
EXTENDS Naturals, Integers, Sequences, FiniteSets, TLC

VARIABLES
    config,            \* ScraperConfig, fixed for the run
    has_callback,      \* self.progress_callback is not None
    site,              \* the URLs the crawled site can name (environment)
    pc,                \* position of run()
    seed,              \* what seeding met: status "none", "ok" or "error", the
                       \* length of the list fetch_sitemap_urls returned, and
                       \* the distinct URLs seeding put into pending_urls
    results,           \* results (ordered list of PageResult dicts)
    visited_urls,      \* visited_urls
    pending_urls,      \* pending_urls
    total_urls_estimate, \* len(pending_urls) in sitemap mode, 0 for "Unknown"
    completed_count,   \* completed_count
    elapsed,           \* current_time - last_update_time as the loop last
                       \* computed it, in tenths of a second, capped at LongAgo
    since_update,      \* the same difference after last_update_time was set
    answers,           \* the answers the site's server can give (environment)
    future_to_url,     \* future_to_url: future -> the future's url and state of work
    work_queue,        \* the executor's queue of submitted futures no thread took yet
    done,              \* futures of the current `done` set still to be handled
    dispatched,        \* log: how many times each url was given to executor.submit
    failed_urls,       \* log of URLs whose fetch or transform raised
    last_progress,     \* log: the last call of progress_callback, as the count in
                       \* its message and its fraction (num / den); calls = 0 if none
    written,           \* output files produced in the run directory
    zip_path,          \* the value run() returns first ("none" until it does)
    titles,            \* the title tags the site's pages can carry (environment)
    references_dir,    \* references/: the files and, for their content, the
                       \* title of the page each file holds ("# title ...")
    index_rows,        \* the rows of the index table of SKILL.md
    archive,           \* the names the zip archive holds
    doc,               \* a fetched document under transformation: its title
                       \* tag and its anchors' hrefs, resolved against its url
    page,              \* what the transformation made of doc so far
    open_files,        \* the reference files workers hold open for writing:
                       \* name, the content to write, the descriptor's offset
                       \* and the dict the worker returns afterwards
    lost_links         \* log of the links the loop did not offer because the
                       \* progress sink raised before the discovery step

vars == << config, has_callback, site, pc, seed, results, visited_urls,
           pending_urls, total_urls_estimate, completed_count,
           elapsed, since_update, answers, future_to_url, work_queue, done, dispatched,
           failed_urls, last_progress, written, zip_path, titles,
           references_dir, index_rows, archive, doc, page, open_files,
           lost_links >>

----------------------------------------------------------------------------
(* Bounds of the model.                                                    *)

MaxUrls == 2
MaxPages == 2
MaxThreads == 2
MaxRetriesCrawl == 1
MaxSitemapLen == 2

(* Bounds of the fetch-focused specification. *)
MaxUrlsFetch == 1
MaxRetries == 3

(* Bound of the index specification: the longest result list. *)
MaxIndexLen == 3

(* Bounds of the transformation specification: the most anchors of a       *)
(* document, the longest title before its padding, and how far below the   *)
(* filename limit the padded titles start.                                 *)
MaxHrefs == 2
MaxTitleLen == 3
PadSlack == 5

\* The write of a reference file: the most chunks a page's content is handed
\* to the file in.
MaxChunks == 2

----------------------------------------------------------------------------
(* Program constants.                                                      *)

\* status_forcelist of the Retry strategy
status_forcelist == {429, 500, 502, 503, 504}

\* A request that got no HTTP answer (connection error, timeout).
NetworkError == 0

\* The answers a server gives in the model: 200, a non-transient error, a
\* transient error, no answer.
Responses == {200, 404, 503, NetworkError}

\* current_time - last_update_time > 0.1
ThrottleTenths == 1

\* The throttle only compares the time since the last notification with 0.1 s:
\* every longer time is the same to it.  last_update_time starts at 0 and
\* time.time() is the time since 1970, so the run starts at LongAgo.
LongAgo == ThrottleTenths + 1

\* len(future_to_url) + len(to_add) < max_threads * 2
BufferFactor == 2

\* base_url: Optional[str] = None, as a URL that is no URL
NoUrl == 0

----------------------------------------------------------------------------
(* Helpers.                                                                *)

Min(a, b) == IF a < b THEN a ELSE b

Range(s) == { s[i] : i \in DOMAIN s }

SeqsUpTo(S, n) == UNION { [1..k -> S] : k \in 0..n }

\* The orders in which the elements of a set can be taken.
Orders(S) == { s \in [1..Cardinality(S) -> S] : Range(s) = S }

InFlight == DOMAIN future_to_url

Running == { f \in InFlight : future_to_url[f].state \in {"running", "writing"} }

Finished == { f \in InFlight : future_to_url[f].state = "finished" }

NoResult ==
    [ url |-> NoUrl, title |-> << >>, filename |-> << >>, status |-> "none",
      error |-> "", extracted_links |-> {} ]

\* The file system before any file is written, and an archive not yet made.
EmptyDir == {}

NoArchive == [ files |-> {}, references |-> {} ]

\* open(filepath, 'w') ... f.write(full_content): the directory afterwards.
\* A file of that name is replaced.
WriteFile(dir, name, content) ==
    { e \in dir : e.name # name } \cup { [ name |-> name, content |-> content ] }

FileNames(dir) == { e.name : e \in dir }

\* No document is under transformation.
NoDoc == [ title_tag |-> [ present |-> FALSE, string |-> << >> ], hrefs |-> << >> ]

NoPage ==
    [ stage |-> "none", extracted_links |-> << >>, title |-> << >>,
      filename |-> << >> ]

NoProgress == [calls |-> 0, completed |-> 0, num |-> 0, den |-> 1]

\* progress_callback(message, fraction) is called: the log after it.
Notified(completed, num, den) ==
    [calls |-> last_progress.calls + 1, completed |-> completed, num |-> num, den |-> den]

----------------------------------------------------------------------------
(* Text.  A text is a sequence of characters; a character is a string of   *)
(* length one.  The classes are those of Python's re on str: \w is every   *)
(* letter and digit of Unicode and the underscore, \s is whitespace.       *)

AsciiLower ==
    { "a", "b", "c", "d", "e", "f", "g", "h", "i", "j", "k", "l", "m",
      "n", "o", "p", "q", "r", "s", "t", "u", "v", "w", "x", "y", "z" }

Digits == { "0", "1", "2", "3", "4", "5", "6", "7", "8", "9" }

\* The upper-case letters of the model and what str.lower() makes of them.
LowerOf ==
    [ c \in { "A", "D", "F", "N", "P", "T", "U", "É" } |->
        CASE c = "A" -> "a" [] c = "D" -> "d" [] c = "F" -> "f"
          [] c = "N" -> "n" [] c = "P" -> "p" [] c = "T" -> "t"
          [] c = "U" -> "u" [] c = "É" -> "é" ]

Lower(c) == IF c \in DOMAIN LowerOf THEN LowerOf[c] ELSE c

\* \s
Whitespace == { " " }

\* \w
IsWord(c) ==
    c \in AsciiLower \cup Digits \cup DOMAIN LowerOf \cup { "_", "é" }

\* [\w\s-]: what re.sub(r'[^\w\s-]', '', text) keeps
IsSlugChar(c) == IsWord(c) \/ c \in Whitespace \/ c = "-"

\* [-\s]
IsSeparator(c) == c = "-" \/ c \in Whitespace

\* "untitled", ".md", "No Title", "Untitled"
UntitledSlug == << "u", "n", "t", "i", "t", "l", "e", "d" >>

DotMd == << ".", "m", "d" >>

NoTitleText == << "N", "o", " ", "T", "i", "t", "l", "e" >>

UntitledText == << "U", "n", "t", "i", "t", "l", "e", "d" >>

\* len(filename) > 100
FilenameLimit == 100

\* str.strip(): the text without the characters of `chars` at its two ends.
Strip(text, chars) ==
    LET keep == { i \in DOMAIN text : text[i] \notin chars }
    IN  IF keep = {} THEN << >>
        ELSE SubSeq(text,
                    CHOOSE i \in keep : \A j \in keep : i <= j,
                    CHOOSE i \in keep : \A j \in keep : j <= i)

\* re.sub(r'[-\s]+', '-', text): every maximal run of separators becomes "-".
RECURSIVE CollapseRuns(_, _)
CollapseRuns(text, inRun) ==
    IF text = << >> THEN << >>
    ELSE IF IsSeparator(Head(text))
         THEN (IF inRun THEN << >> ELSE << "-" >>) \o CollapseRuns(Tail(text), TRUE)
         ELSE << Head(text) >> \o CollapseRuns(Tail(text), FALSE)

\* _slugify(text)
Slugify(text) ==
    IF text = << >> THEN UntitledSlug
    ELSE LET lowered == [ i \in DOMAIN text |-> Lower(text[i]) ]
             kept == SelectSeq(lowered, IsSlugChar)
             slug == Strip(CollapseRuns(kept, FALSE), { "-" })
         IN  IF slug = << >> THEN UntitledSlug ELSE slug

\* filename = self._slugify(title) + ".md"; truncated to the first 100
\* characters plus ".md" when longer than 100.
Filename(title) ==
    LET filename == Slugify(title) \o DotMd
    IN  IF Len(filename) > FilenameLimit
        THEN SubSeq(filename, 1, FilenameLimit) \o DotMd
        ELSE filename

\* str.endswith, str.startswith
EndsWith(text, suffix) ==
    /\ Len(text) >= Len(suffix)
    /\ SubSeq(text, Len(text) - Len(suffix) + 1, Len(text)) = suffix

StartsWith(text, prefix) ==
    /\ Len(text) >= Len(prefix)
    /\ SubSeq(text, 1, Len(prefix)) = prefix

LowerText(text) == [ i \in DOMAIN text |-> Lower(text[i]) ]

\* A URL is the record of its parts (as urlparse gives them), each a text;
\* query and fragment carry their "?" and "#".  UrlText is the string.
UrlText(u) ==
    u.scheme \o << ":" >>
    \o (IF u.netloc # << >> THEN << "/", "/" >> \o u.netloc ELSE << >>)
    \o u.path \o u.query \o u.fragment

\* full_url.split('#')[0]
WithoutFragment(u) == [ u EXCEPT !.fragment = << >> ]

\* ['.png', '.jpg', '.jpeg', '.gif', '.pdf', '.zip', '.css', '.js']
NonPageExtensions ==
    { << ".", "p", "n", "g" >>, << ".", "j", "p", "g" >>,
      << ".", "j", "p", "e", "g" >>, << ".", "g", "i", "f" >>,
      << ".", "p", "d", "f" >>, << ".", "z", "i", "p" >>,
      << ".", "c", "s", "s" >>, << ".", "j", "s" >> }

\* any(full_url.lower().endswith(ext) for ext in [...])
EndsWithNonPageExtension(text) ==
    \E ext \in NonPageExtensions : EndsWith(LowerText(text), ext)

\* _is_internal_url(url, base_domain)
IsInternalUrl(u, base_domain) == u.netloc = base_domain \/ u.netloc = << >>

\* The netloc of config.base_url and the netloc of another site.
BaseDomain == << "b" >>

OtherDomain == << "o" >>

\* The three tests a resolved href passes, fragment removed, to be appended
\* to extracted_links.
IsExtracted(full_url) ==
    /\ IsInternalUrl(full_url, BaseDomain)
    /\ ~EndsWithNonPageExtension(UrlText(full_url))
    /\ StartsWith(UrlText(full_url), << "h", "t", "t", "p" >>)

\* for a_tag in soup.find_all('a', href=True): ... extracted_links.append
ExtractedLinks(hrefs) ==
    SelectSeq([ i \in DOMAIN hrefs |-> WithoutFragment(hrefs[i]) ], IsExtracted)

\* A title tag of a document: absent, or present with the text
\* soup.title.string gives (the empty text for None: an empty tag, or a tag
\* with nested markup).
NoTitleTag == [ present |-> FALSE, string |-> << >> ]

TitleTag(text) == [ present |-> TRUE, string |-> text ]

\* title = soup.title.string if soup.title else "No Title"
\* title = title.strip() if title else "Untitled"
ResolveTitle(tag) ==
    LET title == IF tag.present THEN tag.string ELSE NoTitleText
    IN  IF title # << >> THEN Strip(title, Whitespace) ELSE UntitledText

----------------------------------------------------------------------------
(* Construction.                                                           *)

\* ScraperConfig: the fields the crawl reads.  base_url is URL 1 or missing.
Configs(modes, pages, threads, retries) ==
    [ mode : modes,
      base_url : {NoUrl, 1},
      max_pages : pages,
      max_threads : threads,
      max_retries : retries ]

\* The state after ScraperEngine(config, progress_callback) and the first
\* statements of run(): empty results, visited_urls and pending_urls.
InitWith(urls, modes, pages, threads, retries, served, sinks, tags) ==
    /\ config \in { c \in Configs(modes, pages, threads, retries) :
                      c.mode = "sitemap" => c.base_url = NoUrl }
    /\ has_callback \in sinks
    /\ site = urls
    /\ pc = "idle"
    /\ seed = [status |-> "none", listed |-> 0, urls |-> {}]
    /\ results = << >>
    /\ visited_urls = {}
    /\ pending_urls = {}
    /\ total_urls_estimate = 0
    /\ completed_count = 0
    /\ elapsed = LongAgo
    /\ since_update = LongAgo
    /\ answers = served
    /\ future_to_url = << >>
    /\ work_queue = << >>
    /\ done = {}
    /\ dispatched = [ u \in urls |-> 0 ]
    /\ failed_urls = {}
    /\ last_progress = NoProgress
    /\ written = {}
    /\ zip_path = "none"
    /\ titles = tags
    /\ references_dir = EmptyDir
    /\ index_rows = << >>
    /\ archive = NoArchive
    /\ doc = NoDoc
    /\ page = NoPage
    /\ open_files = << >>
    /\ lost_links = {}

\* The pages of the crawled site all carry the title "a".
CrawlTitles == { [ present |-> TRUE, string |-> << "a" >> ] }

\* The crawl: every configuration, up to two workers, a server that answers
\* 200, 404 or 503.
Init ==
    InitWith(1..MaxUrls, {"sitemap", "recursive"}, 1..MaxPages, 1..MaxThreads,
             0..MaxRetriesCrawl, {200, 404, 503}, BOOLEAN,
             CrawlTitles)

\* The crawl of a site of one more page.
InitWide ==
    InitWith(1..(MaxUrls + 1), {"sitemap", "recursive"}, 1..MaxPages, 1..MaxThreads,
             0..MaxRetriesCrawl, {200, 404, 503}, BOOLEAN,
             CrawlTitles)

\* The fetch: a sitemap run over a small site, with every retry ceiling up to
\* MaxRetries, a server that can give every answer, and no progress sink.
InitFetch ==
    InitWith(1..MaxUrlsFetch, {"sitemap"}, {1}, 1..MaxThreads, 0..MaxRetries,
             Responses, {FALSE},
             CrawlTitles)

----------------------------------------------------------------------------
(* The frontier and the pool: the steps run() takes on them.               *)

\* A frontier that forgets what it submitted (a fault C1 must exclude).
MarkVisitedSkipped(visited, url) == visited

\* visited_urls.add(url)
MarkVisited(visited, url) == visited \cup {url}

\* executor.submit(self.process_url, url): a new future, waiting for a worker
\* thread.  retry_total is the Retry object's remaining total.
NewFuture(url) ==
    [ url |-> url, state |-> "queued", responses |-> << >>,
      retry_total |-> config.max_retries, sleeps |-> 0, raised |-> "",
      result |-> NoResult ]

\* A future is told from the others by its url and by which submission of
\* that url it is.
FutureOf(st, url) == << url, st.dispatched[url] + 1 >>

\* A loop that marks a url visited and submits nothing (a fault C26 must
\* exclude).
SubmitOneMarkOnly(st, url) ==
    [ st EXCEPT !.visited = MarkVisited(st.visited, url) ]

\* for url in ...: if url not in visited_urls: add, submit, remember the future
SubmitOne(st, url) ==
    IF url \in st.visited
    THEN st
    ELSE [ visited |-> MarkVisited(st.visited, url),
           futures |-> st.futures @@ (FutureOf(st, url) :> NewFuture(url)),
           queue |-> Append(st.queue, FutureOf(st, url)),
           dispatched |-> [ st.dispatched EXCEPT ![url] = @ + 1 ] ]

\* A batch that stops after its first url (a fault C13 must exclude).
SubmitFirstOnly(st, urls) ==
    IF urls = << >> THEN st ELSE SubmitOne(st, Head(urls))

RECURSIVE SubmitBatch(_, _)
SubmitBatch(st, urls) ==
    IF urls = << >>
    THEN st
    ELSE SubmitBatch(SubmitOne(st, Head(urls)), Tail(urls))

Frontier == [ visited |-> visited_urls, futures |-> future_to_url,
              queue |-> work_queue, dispatched |-> dispatched ]

\* A ceiling that is never reached (a fault C18 must exclude).
BelowCeilingAlways == TRUE

\* A ceiling that is always reached (a fault C17 must exclude).
BelowCeilingNever == FALSE

\* A ceiling that lets one more page through (a fault C24 must exclude).
BelowCeilingInclusive == completed_count + Cardinality(InFlight) <= config.max_pages

\* completed_count + len(future_to_url) < self.config.max_pages
BelowCeiling == completed_count + Cardinality(InFlight) < config.max_pages

----------------------------------------------------------------------------
(* run(): seeding.                                                         *)

Run ==
    /\ pc = "idle"
    /\ pc' = "seeding"
    /\ UNCHANGED << config, has_callback, site, seed, results, visited_urls,
                    pending_urls, total_urls_estimate, completed_count,
                    elapsed, since_update, answers, future_to_url,
                    work_queue, done, dispatched, failed_urls, last_progress,
                    written, zip_path, titles, references_dir, index_rows,
                    archive, doc, page, open_files, lost_links >>

\* fetch_sitemap_urls returns: the GET was answered 200 and `urls` is what the
\* parsers extracted (possibly nothing, possibly with repetitions).
SeedSitemapOk ==
    /\ pc = "seeding"
    /\ config.mode = "sitemap"
    /\ \E urls \in SeqsUpTo(site, MaxSitemapLen) :
         /\ pending_urls' = Range(urls)
         /\ total_urls_estimate' = Cardinality(Range(urls))
         /\ seed' = [status |-> "ok", listed |-> Len(urls), urls |-> Range(urls)]
    /\ last_progress' = IF has_callback THEN Notified(0, 0, 1) ELSE last_progress
    /\ pc' = "submit_initial"
    /\ UNCHANGED << config, has_callback, site, results, visited_urls,
                    completed_count, elapsed, since_update, answers,
                    future_to_url, work_queue, done, dispatched, failed_urls,
                    written, zip_path, titles, references_dir, index_rows,
                    archive, doc, page, open_files, lost_links >>

\* A seeding failure that is swallowed instead of raised (a fault C5 must
\* exclude).
SeedSitemapFailSwallowed ==
    /\ pc = "seeding"
    /\ config.mode = "sitemap"
    /\ seed' = [status |-> "error", listed |-> 0, urls |-> {}]
    /\ pc' = "submit_initial"
    /\ UNCHANGED << config, has_callback, site, results, visited_urls,
                    pending_urls, total_urls_estimate, completed_count,
                    elapsed, since_update, answers, future_to_url,
                    work_queue, done, dispatched, failed_urls, last_progress,
                    written, zip_path, titles, references_dir, index_rows,
                    archive, doc, page, open_files, lost_links >>

\* fetch_sitemap_urls raises: the progress sink raised, or the GET ended in
\* an error answer (raise_for_status, retries exhausted, no answer).  The
\* exception leaves run() through `except Exception: ... raise`.
SeedSitemapFail ==
    /\ pc = "seeding"
    /\ config.mode = "sitemap"
    /\ \E sink_raised \in { b \in BOOLEAN : b => has_callback },
          resp \in answers :
         /\ sink_raised \/ resp # 200
         /\ last_progress' = IF has_callback THEN Notified(0, 0, 1) ELSE last_progress
    /\ seed' = [status |-> "error", listed |-> 0, urls |-> {}]
    /\ pc' = "failed"
    /\ UNCHANGED << config, has_callback, site, results, visited_urls,
                    pending_urls, total_urls_estimate, completed_count,
                    elapsed, since_update, answers, future_to_url,
                    work_queue, done, dispatched, failed_urls, written,
                    zip_path, titles, references_dir, index_rows, archive,
                    doc, page, open_files, lost_links >>

SeedRecursiveOk ==
    /\ pc = "seeding"
    /\ config.mode = "recursive"
    /\ config.base_url # NoUrl
    /\ pending_urls' = pending_urls \cup {config.base_url}
    /\ seed' = [status |-> "ok", listed |-> 0, urls |-> {config.base_url}]
    /\ pc' = "submit_initial"
    /\ UNCHANGED << config, has_callback, site, results, visited_urls,
                    total_urls_estimate, completed_count, elapsed,
                    since_update, answers, future_to_url, work_queue, done,
                    dispatched, failed_urls, last_progress, written,
                    zip_path, titles, references_dir, index_rows, archive,
                    doc, page, open_files, lost_links >>

\* raise ValueError("Base URL is required for recursive mode.")
SeedRecursiveFail ==
    /\ pc = "seeding"
    /\ config.mode = "recursive"
    /\ config.base_url = NoUrl
    /\ seed' = [status |-> "error", listed |-> 0, urls |-> {}]
    /\ pc' = "failed"
    /\ UNCHANGED << config, has_callback, site, results, visited_urls,
                    pending_urls, total_urls_estimate, completed_count,
                    elapsed, since_update, answers, future_to_url,
                    work_queue, done, dispatched, failed_urls, last_progress,
                    written, zip_path, titles, references_dir, index_rows,
                    archive, doc, page, open_files, lost_links >>

----------------------------------------------------------------------------
(* run(): the initial batch.                                               *)

\* while pending_urls and (sitemap or below the ceiling): snapshot pending,
\* clear it, submit every url not yet visited.  One pass empties pending, so
\* the loop runs at most once.  list(set) has no fixed order.
SubmitInitial ==
    /\ pc = "submit_initial"
    /\ IF pending_urls # {} /\ (config.mode = "sitemap" \/ BelowCeiling)
       THEN \E to_submit \in Orders(pending_urls) :
              LET st == SubmitBatch(Frontier, to_submit)
              IN  /\ visited_urls' = st.visited
                  /\ future_to_url' = st.futures
                  /\ work_queue' = st.queue
                  /\ dispatched' = st.dispatched
                  /\ pending_urls' = {}
       ELSE UNCHANGED << visited_urls, future_to_url, work_queue, dispatched,
                         pending_urls >>
    /\ pc' = "wait"
    /\ UNCHANGED << config, has_callback, site, seed, results,
                    total_urls_estimate, completed_count, elapsed,
                    since_update, answers, done, failed_urls, last_progress,
                    written, zip_path, titles, references_dir, index_rows,
                    archive, doc, page, open_files, lost_links >>

----------------------------------------------------------------------------
(* The worker pool and process_url.                                        *)

\* A pool that starts every queued future at once (a fault C3 must exclude).
PoolUnbounded == TRUE

\* ThreadPoolExecutor(max_workers=self.config.max_threads): a queued future
\* starts only when fewer than max_workers threads are busy.
PoolHasIdleWorker == Cardinality(Running) < config.max_threads

\* A retry strategy that retries every error answer (a fault C9 must exclude).
IsRetryOnAnyError(resp) == resp = NetworkError \/ resp >= 400

\* Retry(status_forcelist=..., allowed_methods=[..., "GET", ...]): a GET is tried
\* again after an answer of the forcelist, and after no answer at all.
IsRetry(resp) == resp = NetworkError \/ resp \in status_forcelist

\* response.raise_for_status()
RaisesForStatus(resp) == resp >= 400 /\ resp < 600

\* A retry strategy that gives up one retry early (a fault C8 must exclude).
RetryExhaustedEarly(total) == total - 1 <= 0

\* Retry.increment: total - 1; exhausted when it falls below zero.
RetryExhausted(total) == total - 1 < 0

\* The dict process_url returns from its try block.
SuccessResult(url, title, filename, links) ==
    [ url |-> url, title |-> title, filename |-> filename, status |-> "success",
      error |-> "", extracted_links |-> links ]

\* "Error", the title of a failed dict
ErrorText == << "E", "r", "r", "o", "r" >>

\* The dict process_url returns from `except Exception as e`.  The text of
\* the exception is not modelled.
FailedResult(url) ==
    [ url |-> url, title |-> ErrorText, filename |-> << >>, status |-> "failed",
      error |-> "exception", extracted_links |-> {} ]

\* The links process_url can extract: none unless the mode is recursive.
ExtractedLinkSets == IF config.mode = "recursive" THEN SUBSET site ELSE { {} }

\* The work queue of the pool is first in, first out: the oldest queued
\* future gets the idle thread and enters process_url.
WorkerStart ==
    /\ work_queue # << >>
    /\ PoolHasIdleWorker
    /\ future_to_url' = [ future_to_url EXCEPT ![Head(work_queue)].state = "running" ]
    /\ work_queue' = Tail(work_queue)
    /\ UNCHANGED << config, has_callback, site, pc, seed, results,
                    visited_urls, pending_urls, total_urls_estimate,
                    completed_count, elapsed, since_update, answers, done,
                    dispatched, failed_urls, last_progress, written,
                    zip_path, titles, references_dir, index_rows, archive,
                    doc, page, open_files, lost_links >>

\* session.get: an attempt is answered by a retryable answer while retries
\* remain: the adapter sleeps (backoff) and tries again.
FetchRetry(f) ==
    /\ future_to_url[f].state = "running"
    /\ ~RetryExhausted(future_to_url[f].retry_total)
    /\ \E resp \in answers :
         /\ IsRetry(resp)
         /\ future_to_url' =
              [ future_to_url EXCEPT
                  ![f].responses = Append(@, resp),
                  ![f].retry_total = @ - 1,
                  ![f].sleeps = @ + 1 ]
    /\ UNCHANGED << config, has_callback, site, pc, seed, results,
                    visited_urls, pending_urls, total_urls_estimate,
                    completed_count, elapsed, since_update, answers,
                    work_queue, done, dispatched, failed_urls, last_progress,
                    written, zip_path, titles, references_dir, index_rows,
                    archive, doc, page, open_files, lost_links >>

\* The error a last answer raises inside process_url ("" when it raises none).
FetchError(resp, total) ==
    IF IsRetry(resp)
    THEN IF RetryExhausted(total)
         THEN (IF resp = NetworkError THEN "ConnectionError" ELSE "RetryError")
         ELSE ""
    ELSE IF RaisesForStatus(resp) THEN "HTTPError" ELSE ""

\* session.get or raise_for_status raises: retries exhausted, or an error
\* status outside the forcelist.  process_url catches it and returns the
\* failed dict.
FetchFail(f) ==
    /\ future_to_url[f].state = "running"
    /\ \E resp \in answers :
         LET fut == future_to_url[f]
             err == FetchError(resp, fut.retry_total)
         IN  /\ err # ""
             /\ ~(IsRetry(resp) /\ ~RetryExhausted(fut.retry_total))
             /\ future_to_url' =
                  [ future_to_url EXCEPT
                      ![f].responses = Append(@, resp),
                      ![f].state = "finished",
                      ![f].raised = err,
                      ![f].result = FailedResult(fut.url) ]
             /\ failed_urls' = failed_urls \cup {fut.url}
    /\ UNCHANGED << config, has_callback, site, pc, seed, results,
                    visited_urls, pending_urls, total_urls_estimate,
                    completed_count, elapsed, since_update, answers,
                    work_queue, done, dispatched, last_progress, written,
                    zip_path, titles, references_dir, index_rows, archive,
                    doc, page, open_files, lost_links >>

\* A worker that puts the links it extracted into pending_urls itself (a
\* fault C21 must exclude).
FetchSuccessOffering(f) ==
    /\ future_to_url[f].state = "running"
    /\ 200 \in answers
    /\ \E links \in ExtractedLinkSets, tag \in titles :
         LET url == future_to_url[f].url
             title == ResolveTitle(tag)
             filename == Filename(title)
         IN  /\ references_dir' = WriteFile(references_dir, filename, title)
             /\ pending_urls' = pending_urls \cup (links \ visited_urls)
             /\ future_to_url' =
                   [ future_to_url EXCEPT
                       ![f].responses = Append(@, 200),
                       ![f].state = "finished",
                       ![f].result = SuccessResult(url, title, filename, links) ]
    /\ UNCHANGED << config, has_callback, site, pc, seed, results,
                    visited_urls, total_urls_estimate, completed_count,
                    elapsed, since_update, answers, work_queue, done,
                    dispatched, failed_urls, last_progress, written,
                    zip_path, titles, index_rows, archive, doc, page,
                    open_files, lost_links >>

\* The GET is answered 200: links are extracted (recursive mode), the page is
\* transformed and written, and the success dict is returned.
FetchSuccess(f) ==
    /\ future_to_url[f].state = "running"
    /\ 200 \in answers
    /\ \E links \in ExtractedLinkSets, tag \in titles :
         LET url == future_to_url[f].url
             title == ResolveTitle(tag)
             filename == Filename(title)
         IN  /\ references_dir' = WriteFile(references_dir, filename, title)
             /\ future_to_url' =
                   [ future_to_url EXCEPT
                       ![f].responses = Append(@, 200),
                       ![f].state = "finished",
                       ![f].result = SuccessResult(url, title, filename, links) ]
    /\ UNCHANGED << config, has_callback, site, pc, seed, results,
                    visited_urls, pending_urls, total_urls_estimate,
                    completed_count, elapsed, since_update, answers,
                    work_queue, done, dispatched, failed_urls, last_progress,
                    written, zip_path, titles, index_rows, archive, doc,
                    page, open_files, lost_links >>

\* The GET is answered 200 and parsing or conversion raises, or the file
\* cannot be opened: process_url catches it and returns the failed dict.
TransformFail(f) ==
    /\ future_to_url[f].state = "running"
    /\ 200 \in answers
    /\ future_to_url' =
         [ future_to_url EXCEPT
             ![f].responses = Append(@, 200),
             ![f].state = "finished",
             ![f].raised = "TransformError",
             ![f].result = FailedResult(future_to_url[f].url) ]
    /\ failed_urls' = failed_urls \cup {future_to_url[f].url}
    /\ UNCHANGED << config, has_callback, site, pc, seed, results,
                    visited_urls, pending_urls, total_urls_estimate,
                    completed_count, elapsed, since_update, answers,
                    work_queue, done, dispatched, last_progress, written,
                    zip_path, titles, references_dir, index_rows, archive,
                    doc, page, open_files, lost_links >>

----------------------------------------------------------------------------
(* run(): the process loop.                                                *)

\* A loop that drops failed results (a fault C4 must exclude).
RecordResultIfSuccess(res, data) ==
    IF data.status = "success" THEN Append(res, data) ELSE res

\* A loop that appends a result twice (a fault C7 must exclude).
RecordResultTwice(res, data) == Append(Append(res, data), data)

\* results.append(data)
RecordResult(res, data) == Append(res, data)

\* A discovery that offers every page of the site, linked or not (a fault
\* C19 must exclude).
OfferWholeSite(pending, visited, data) == pending \cup (site \ visited)

\* A discovery that offers the links whether visited or not (a fault C20,
\* amended, must exclude).
OfferVisitedToo(pending, visited, data) ==
    IF config.mode = "recursive" /\ data.status = "success"
    THEN pending \cup data.extracted_links
    ELSE pending

\* for link in new_links: if link not in visited_urls: pending_urls.add(link),
\* only in recursive mode and for a successful page.
Offer(pending, visited, data) ==
    IF config.mode = "recursive" /\ data.status = "success"
    THEN pending \cup { link \in data.extracted_links : link \notin visited }
    ELSE pending

\* A handler that offers the links before it calls the sink (a fault C27
\* must exclude).
DiscoverFirst(sink_raised, pending, visited, data) == Offer(pending, visited, data)

\* The discovery step stands after the call of the sink inside the try
\* block: when the sink raises it is skipped.
Discover(sink_raised, pending, visited, data) ==
    IF sink_raised THEN pending ELSE Offer(pending, visited, data)

\* A loop that notifies on every completion (a fault C10, amended, must
\* exclude).
ShouldNotifyUnthrottled(e) == has_callback

\* self.progress_callback and (current_time - last_update_time > 0.1), with
\* e for current_time - last_update_time
ShouldNotify(e) == has_callback /\ e > ThrottleTenths

\* A loop that tells the sink the share of the sitemap still to do (a fault
\* C23 must exclude).
ProgressCallRemaining(completed) ==
    IF config.mode = "sitemap" /\ total_urls_estimate > 0
    THEN Notified(completed, total_urls_estimate - Min(completed, total_urls_estimate),
                  total_urls_estimate)
    ELSE Notified(completed, 1, 2)

\* The call of the sink after `completed` completions: the fraction is
\* min(1.0, completed / total_urls_estimate) when the estimate is a positive
\* int (sitemap mode), 0.5 otherwise.
ProgressCall(completed) ==
    IF config.mode = "sitemap" /\ total_urls_estimate > 0
    THEN Notified(completed, Min(completed, total_urls_estimate), total_urls_estimate)
    ELSE Notified(completed, 1, 2)

\* current_time = time.time(): time does not go back, so the time since the
\* last notification does not shrink.  The value is used for nothing but the
\* throttle of the sink, so without a sink it is not drawn.
TimeReadings == IF has_callback THEN since_update..LongAgo ELSE {since_update}

\* wait(future_to_url.keys(), return_when=FIRST_COMPLETED): returns once a
\* future has completed, with every future completed by then.
WaitCompleted ==
    /\ pc = "wait"
    /\ Finished # {}
    /\ done' = Finished
    /\ pc' = "handle"
    /\ UNCHANGED << config, has_callback, site, seed, results, visited_urls,
                    pending_urls, total_urls_estimate, completed_count,
                    elapsed, since_update, answers, future_to_url,
                    work_queue, dispatched, failed_urls, last_progress,
                    written, zip_path, titles, references_dir, index_rows,
                    archive, doc, page, open_files, lost_links >>

\* `while future_to_url:` is false: the pool is left.
LoopExit ==
    /\ pc = "wait"
    /\ InFlight = {}
    /\ pc' = "finalizing"
    /\ UNCHANGED << config, has_callback, site, seed, results, visited_urls,
                    pending_urls, total_urls_estimate, completed_count,
                    elapsed, since_update, answers, future_to_url,
                    work_queue, done, dispatched, failed_urls, last_progress,
                    written, zip_path, titles, references_dir, index_rows,
                    archive, doc, page, open_files, lost_links >>

\* One pass of `for future in done:`: pop the future, append its result,
\* count it, notify the sink unless throttled, offer the links.  A sink that
\* raises is caught by `except Exception as exc`, after the append and the
\* count and before the links are offered.
HandleCompletion ==
    /\ pc = "handle"
    /\ \E f \in done :
         LET data == future_to_url[f].result
             rest == done \ {f}
         IN  /\ future_to_url' = [ g \in InFlight \ {f} |-> future_to_url[g] ]
             /\ results' = RecordResult(results, data)
             /\ completed_count' = completed_count + 1
             /\ done' = rest
             /\ pc' = IF rest # {} THEN "handle"
                      ELSE IF config.mode = "recursive" THEN "refill" ELSE "wait"
             /\ \E e \in TimeReadings :
                  /\ elapsed' = e
                  /\ IF ShouldNotify(e)
                     THEN /\ since_update' = 0     \* last_update_time = current_time
                          /\ last_progress' = ProgressCall(completed_count + 1)
                          /\ \E sink_raised \in BOOLEAN :
                               /\ pending_urls' =
                                    Discover(sink_raised, pending_urls, visited_urls, data)
                               /\ lost_links' =
                                    IF sink_raised
                                    THEN lost_links \cup
                                         (Offer(pending_urls, visited_urls, data)
                                             \ pending_urls)
                                    ELSE lost_links
                     ELSE /\ since_update' = e
                          /\ UNCHANGED last_progress
                          /\ pending_urls' =
                               Discover(FALSE, pending_urls, visited_urls, data)
                          /\ lost_links' = lost_links
    /\ UNCHANGED << config, has_callback, site, seed, visited_urls,
                    total_urls_estimate, answers, work_queue, dispatched,
                    failed_urls, written, zip_path, titles, references_dir,
                    index_rows, archive, doc, page, open_files >>

\* A refill that pops whatever is pending (a fault C25 must exclude).
BufferRoomUnbounded == Cardinality(site)

\* len(future_to_url) + len(to_add) < self.config.max_threads * 2, as the
\* number of urls the inner loop can still pop.
BufferRoom ==
    IF Cardinality(InFlight) < config.max_threads * BufferFactor
    THEN config.max_threads * BufferFactor - Cardinality(InFlight)
    ELSE 0

\* One pass of the refill loop: pop urls from pending (a set: any of them, in
\* any order) while the buffer has room, submit those not yet visited.  An
\* empty to_add breaks out of the loop.
RefillPass ==
    /\ pc = "refill"
    /\ pending_urls # {}
    /\ BelowCeiling
    /\ \E popped \in { S \in SUBSET pending_urls :
                         Cardinality(S) = Min(Cardinality(pending_urls), BufferRoom) } :
         \E to_add \in Orders(popped) :
           LET st == SubmitBatch(Frontier, to_add)
           IN  /\ pending_urls' = pending_urls \ popped
               /\ visited_urls' = st.visited
               /\ future_to_url' = st.futures
               /\ work_queue' = st.queue
               /\ dispatched' = st.dispatched
               /\ pc' = IF to_add = << >> THEN "wait" ELSE "refill"
    /\ UNCHANGED << config, has_callback, site, seed, results,
                    total_urls_estimate, completed_count, elapsed,
                    since_update, answers, done, failed_urls, last_progress,
                    written, zip_path, titles, references_dir, index_rows,
                    archive, doc, page, open_files, lost_links >>

\* The refill loop's condition is false: back to `while future_to_url:`.
RefillExit ==
    /\ pc = "refill"
    /\ ~(pending_urls # {} /\ BelowCeiling)
    /\ pc' = "wait"
    /\ UNCHANGED << config, has_callback, site, seed, results, visited_urls,
                    pending_urls, total_urls_estimate, completed_count,
                    elapsed, since_update, answers, future_to_url,
                    work_queue, done, dispatched, failed_urls, last_progress,
                    written, zip_path, titles, references_dir, index_rows,
                    archive, doc, page, open_files, lost_links >>

----------------------------------------------------------------------------
(* run(): finalizing.                                                      *)

\* The files generate_skill_md, generate_readme, save_metadata and create_zip
\* write.
BundleFiles == {"SKILL.md", "README.md", "config.json", "crawl_data.json", "zip"}

\* generate_skill_md: one row (filename, title) for each successful item
\* whose filename was not seen before, in the order of the list.
RECURSIVE IndexRowsFrom(_, _)
IndexRowsFrom(scraped_data, seen_filenames) ==
    IF scraped_data = << >> THEN << >>
    ELSE LET item == Head(scraped_data)
         IN  IF item.status = "success" /\ item.filename \notin seen_filenames
             THEN << [ filename |-> item.filename, title |-> item.title ] >>
                  \o IndexRowsFrom(Tail(scraped_data),
                                   seen_filenames \cup { item.filename })
             ELSE IndexRowsFrom(Tail(scraped_data), seen_filenames)

\* A generate_skill_md that gives every successful item a row (a fault C11
\* must exclude).
IndexRowsUndeduplicated(scraped_data) ==
    LET IsSuccess(item) == item.status = "success"
        kept == SelectSeq(scraped_data, IsSuccess)
    IN  [ k \in DOMAIN kept |->
            [ filename |-> kept[k].filename, title |-> kept[k].title ] ]

IndexRows(scraped_data) == IndexRowsFrom(scraped_data, {})

\* A create_zip that leaves references/ out (a fault C12, amended, must
\* exclude).
ArchiveWithoutReferences(dir) ==
    [ files |-> { "SKILL.md", "README.md" }, references |-> {} ]

\* create_zip: SKILL.md and README.md (both exist by then) and every file
\* os.walk finds in references/.
Archive(dir) == [ files |-> { "SKILL.md", "README.md" }, references |-> FileNames(dir) ]

\* generate_skill_md(results); generate_readme(); save_metadata(results);
\* zip_path = create_zip(); return zip_path, results
Finalize ==
    /\ pc = "finalizing"
    /\ index_rows' = IndexRows(results)
    /\ archive' = Archive(references_dir)
    /\ written' = BundleFiles
    /\ zip_path' = "zip"
    /\ pc' = "done"
    /\ UNCHANGED << config, has_callback, site, seed, results, visited_urls,
                    pending_urls, total_urls_estimate, completed_count,
                    elapsed, since_update, answers, future_to_url,
                    work_queue, done, dispatched, failed_urls, last_progress,
                    titles, references_dir, doc, page, open_files,
                    lost_links >>

----------------------------------------------------------------------------
(* Specifications.                                                         *)

Worker ==
    \/ WorkerStart
    \/ \E f \in InFlight : FetchRetry(f)
    \/ \E f \in InFlight : FetchFail(f)
    \/ \E f \in InFlight : FetchSuccess(f)
    \/ \E f \in InFlight : TransformFail(f)

Next ==
    \/ Run
    \/ SeedSitemapOk
    \/ SeedSitemapFail
    \/ SeedRecursiveOk
    \/ SeedRecursiveFail
    \/ SubmitInitial
    \/ WaitCompleted
    \/ LoopExit
    \/ HandleCompletion
    \/ RefillPass
    \/ RefillExit
    \/ Finalize
    \/ Worker

Spec == Init /\ [][Next]_vars

SpecWide == InitWide /\ [][Next]_vars

\* The steps of a run in sitemap mode.
NextFetch ==
    \/ Run
    \/ SeedSitemapOk
    \/ SeedSitemapFail
    \/ SubmitInitial
    \/ WaitCompleted
    \/ LoopExit
    \/ HandleCompletion
    \/ Finalize
    \/ Worker

SpecFetch == InitFetch /\ [][NextFetch]_vars

\* The bundle: a sitemap run over a site whose pages carry the titles "a",
\* "A" (both give a.md) and "b".
BundleTitles == { TitleTag(<< "a" >>), TitleTag(<< "A" >>), TitleTag(<< "b" >>) }

InitBundle ==
    InitWith(1..MaxUrls, {"sitemap"}, {1}, 1..MaxThreads, 0..MaxRetriesCrawl,
             {200, 503}, {FALSE}, BundleTitles)

SpecBundle == InitBundle /\ [][NextFetch]_vars

\* The write of a reference file taken apart.  `with open(filepath, 'w') as
\* f: f.write(full_content)` is an open that truncates the file, then the
\* write calls the file object makes, each at the offset of its own
\* descriptor, the last of them when the block is left.  Nothing keeps two
\* workers from holding the same file open.

\* A stretch of a file that no write call has filled.
Hole == << NoUrl, 0 >>

\* full_content of the page of `url`, as the chunks it is written in.
FullContent(url, size) == [ k \in 1..size |-> << url, k >> ]

\* The file of that name in the directory; `last_content` logs the
\* full_content of the worker whose write call reached the file last.
FileNamed(dir, name) ==
    IF name \in FileNames(dir)
    THEN CHOOSE e \in dir : e.name = name
    ELSE [ name |-> name, content |-> << >>, last_content |-> << >> ]

ReplaceFile(dir, file) == { e \in dir : e.name # file.name } \cup { file }

\* open(filepath, 'w'): the file exists and is empty.
OpenFile(dir, name) ==
    ReplaceFile(dir, [ FileNamed(dir, name) EXCEPT !.content = << >> ])

\* A write call of one chunk at `offset`: the chunk replaces what was there
\* and the rest of the file stays; a write past the end leaves a hole.
WriteAt(old, offset, chunk) ==
    [ i \in 1..(IF Len(old) > offset + 1 THEN Len(old) ELSE offset + 1) |->
        IF i = offset + 1 THEN chunk
        ELSE IF i <= Len(old) THEN old[i] ELSE Hole ]

\* The GET is answered 200, the page is transformed and its reference file is
\* opened for writing.
OpenReference(f) ==
    /\ future_to_url[f].state = "running"
    /\ 200 \in answers
    /\ \E links \in ExtractedLinkSets, tag \in titles, size \in 1..MaxChunks :
         LET url == future_to_url[f].url
             title == ResolveTitle(tag)
             filename == Filename(title)
         IN  /\ references_dir' = OpenFile(references_dir, filename)
             /\ open_files' = open_files @@
                   (f :> [ name |-> filename,
                           content |-> FullContent(url, size),
                           offset |-> 0,
                           returns |-> SuccessResult(url, title, filename, links) ])
             /\ future_to_url' =
                   [ future_to_url EXCEPT
                       ![f].responses = Append(@, 200),
                       ![f].state = "writing" ]
    /\ UNCHANGED << config, has_callback, site, pc, seed, results,
                    visited_urls, pending_urls, total_urls_estimate,
                    completed_count, elapsed, since_update, answers,
                    work_queue, done, dispatched, failed_urls, last_progress,
                    written, zip_path, titles, index_rows, archive, doc,
                    page, lost_links >>

\* One write call of the open file; after the last one the block is left and
\* the success dict is returned.
WriteChunk(f) ==
    /\ future_to_url[f].state = "writing"
    /\ LET w == open_files[f]
           file == FileNamed(references_dir, w.name)
       IN  /\ references_dir' =
                 ReplaceFile(references_dir,
                     [ file EXCEPT
                         !.content = WriteAt(@, w.offset, w.content[w.offset + 1]),
                         !.last_content = w.content ])
           /\ IF w.offset + 1 = Len(w.content)
              THEN /\ open_files' = [ g \in DOMAIN open_files \ {f} |-> open_files[g] ]
                   /\ future_to_url' =
                        [ future_to_url EXCEPT
                            ![f].state = "finished",
                            ![f].result = w.returns ]
              ELSE /\ open_files' = [ open_files EXCEPT ![f].offset = @ + 1 ]
                   /\ future_to_url' = future_to_url
    /\ UNCHANGED << config, has_callback, site, pc, seed, results,
                    visited_urls, pending_urls, total_urls_estimate,
                    completed_count, elapsed, since_update, answers,
                    work_queue, done, dispatched, failed_urls, last_progress,
                    written, zip_path, titles, index_rows, archive, doc,
                    page, lost_links >>

\* A sitemap run over a site that answers 200 and whose pages carry the
\* titles "a", "A" (both give a.md) and "b".
InitWrite ==
    InitWith(1..MaxUrls, {"sitemap"}, {1}, 1..MaxThreads, {0}, {200}, {FALSE},
             BundleTitles)

NextWrite ==
    \/ Run
    \/ SeedSitemapOk
    \/ SubmitInitial
    \/ WaitCompleted
    \/ LoopExit
    \/ HandleCompletion
    \/ Finalize
    \/ WorkerStart
    \/ \E f \in InFlight : OpenReference(f)
    \/ \E f \in InFlight : WriteChunk(f)
    \/ \E f \in InFlight : TransformFail(f)

SpecWrite == InitWrite /\ [][NextWrite]_vars

\* The worker threads keep running and run() keeps running: a step that
\* stays possible is taken.
Driver ==
    \/ Run
    \/ SeedSitemapOk
    \/ SeedSitemapFail
    \/ SeedRecursiveOk
    \/ SeedRecursiveFail
    \/ SubmitInitial
    \/ WaitCompleted
    \/ LoopExit
    \/ HandleCompletion
    \/ RefillPass
    \/ RefillExit
    \/ Finalize

FairSpec == Init /\ [][Next]_vars /\ WF_vars(Driver) /\ WF_vars(Worker)

\* The deep crawl: a recursive run with one worker thread over a site of
\* more pages than the run can ever dispatch, so that a page can always link
\* to pages never seen before.
DeepSite == 1..(MaxPages + 2)

InitDeep ==
    InitWith(DeepSite, {"recursive"}, 1..MaxPages, {1}, 0..MaxRetriesCrawl,
             {200, 503}, {FALSE}, CrawlTitles)

\* The steps of a run in recursive mode.
NextRecursive ==
    \/ Run
    \/ SeedRecursiveOk
    \/ SeedRecursiveFail
    \/ SubmitInitial
    \/ WaitCompleted
    \/ LoopExit
    \/ HandleCompletion
    \/ RefillPass
    \/ RefillExit
    \/ Finalize
    \/ Worker

FairSpecDeep ==
    InitDeep /\ [][NextRecursive]_vars /\ WF_vars(Driver) /\ WF_vars(Worker)

\* The refill: a recursive run with one worker thread and a server that
\* always answers 200, over a site of the base page, as many pages as the
\* buffer of one thread takes, and one page more.
RefillSite == 1..(1 + BufferFactor + 1)

InitRefill ==
    InitWith(RefillSite, {"recursive"}, 1..MaxPages, {1}, {0}, {200}, {FALSE},
             CrawlTitles)

NextRefill ==
    \/ Run
    \/ SeedRecursiveOk
    \/ SeedRecursiveFail
    \/ SubmitInitial
    \/ WaitCompleted
    \/ LoopExit
    \/ HandleCompletion
    \/ RefillPass
    \/ RefillExit
    \/ Finalize
    \/ WorkerStart
    \/ \E f \in InFlight : FetchSuccess(f)
    \/ \E f \in InFlight : TransformFail(f)

SpecRefill == InitRefill /\ [][NextRefill]_vars

----------------------------------------------------------------------------
(* The functions of the engine applied on their own.                       *)

\* An engine just constructed, in the mode `mode` with one thread and no
\* retries, that is at `at`, holding the result list `res` and the document
\* `d`.
InitApplied(mode, at, res, d) ==
    /\ config = [ mode |-> mode,
                  base_url |-> IF mode = "recursive" THEN 1 ELSE NoUrl,
                  max_pages |-> 1, max_threads |-> 1, max_retries |-> 0 ]
    /\ has_callback = FALSE
    /\ site = 1..MaxUrls
    /\ pc = at
    /\ seed = [status |-> "none", listed |-> 0, urls |-> {}]
    /\ results = res
    /\ visited_urls = {}
    /\ pending_urls = {}
    /\ total_urls_estimate = 0
    /\ completed_count = 0
    /\ elapsed = LongAgo
    /\ since_update = LongAgo
    /\ answers = {200}
    /\ future_to_url = << >>
    /\ work_queue = << >>
    /\ done = {}
    /\ dispatched = [ u \in 1..MaxUrls |-> 0 ]
    /\ failed_urls = {}
    /\ last_progress = NoProgress
    /\ written = {}
    /\ zip_path = "none"
    /\ titles = CrawlTitles
    /\ references_dir = EmptyDir
    /\ index_rows = << >>
    /\ archive = NoArchive
    /\ doc = d
    /\ page = NoPage
    /\ open_files = << >>
    /\ lost_links = {}

\* Titles of which the first two give the same filename.
IndexTitles == { << "a" >>, << "A" >>, << "b" >> }

\* The dicts process_url can return for the URLs of the site.
IndexItems ==
    { SuccessResult(u, t, Filename(t), {}) : u \in 1..MaxUrls, t \in IndexTitles }
    \cup { FailedResult(u) : u \in 1..MaxUrls }

\* generate_skill_md is given a result list.
InitIndex ==
    \E res \in SeqsUpTo(IndexItems, MaxIndexLen) :
        InitApplied("sitemap", "generate_skill_md", res, NoDoc)

\* generate_skill_md(scraped_data): SKILL.md is written with the index table.
GenerateSkillMd ==
    /\ pc = "generate_skill_md"
    /\ index_rows' = IndexRows(results)
    /\ written' = written \cup { "SKILL.md" }
    /\ pc' = "indexed"
    /\ UNCHANGED << config, has_callback, site, seed, results, visited_urls,
                    pending_urls, total_urls_estimate, completed_count,
                    elapsed, since_update, answers, future_to_url,
                    work_queue, done, dispatched, failed_urls, last_progress,
                    zip_path, titles, references_dir, archive, doc, page,
                    open_files, lost_links >>

SpecIndex == InitIndex /\ [][GenerateSkillMd]_vars

\* The hrefs of a document's anchors as urljoin(url, href) resolves them.  An
\* http or https URL has a host; a mailto URL has none.
Http == << "h", "t", "t", "p" >>

Https == << "h", "t", "t", "p", "s" >>

Mailto == << "m", "a", "i", "l", "t", "o" >>

Httpx == << "h", "t", "t", "p", "x" >>

ResolvedHrefs ==
    { u \in [ scheme : { Http, Https, Mailto, Httpx },
              netloc : { BaseDomain, OtherDomain, << >> },
              path : { << "/", "p" >>, << "/", "d", ".", "p", "d", "f" >>,
                       << "/", "d", ".", "P", "D", "F" >> },
              query : { << >>, << "?", "v" >> },
              fragment : { << >>, << "#", "t" >> } ] :
        /\ u.scheme \in { Http, Https } => u.netloc # << >>
        /\ u.scheme = Mailto => u.netloc = << >> }

\* The characters of the titles: letters of both cases, a digit, the
\* underscore, a letter outside ASCII, the hyphen, the space, punctuation.
TitleChars == { "a", "A", "1", "_", "é", "-", " ", "!" }

\* The titles: up to MaxTitleLen characters, followed by no padding or by a
\* padding of "a" that brings the filename near its limit of 100 characters.
Paddings == {0} \cup ((FilenameLimit - PadSlack)..(FilenameLimit + 1))

Padded(text, n) == text \o [ i \in 1..n |-> "a" ]

TitleTags(longest) ==
    { NoTitleTag }
    \cup { TitleTag(Padded(text, n)) :
             text \in SeqsUpTo(TitleChars, longest), n \in Paddings }

\* The documents: every title tag with no anchors, and every list of anchors
\* with the title "a".
Documents(longest, most) ==
    { [ title_tag |-> t, hrefs |-> << >> ] : t \in TitleTags(longest) }
    \cup { [ title_tag |-> TitleTag(<< "a" >>), hrefs |-> h ] :
             h \in SeqsUpTo(ResolvedHrefs, most) }

\* process_url of a recursive run has fetched and parsed a document.
InitTransform ==
    \E d \in Documents(MaxTitleLen, MaxHrefs) :
        InitApplied("recursive", "process_url", << >>, d)

\* extracted_links = [] ... extracted_links.append(full_url)
ExtractLinks ==
    /\ pc = "process_url"
    /\ page.stage = "none"
    /\ page' = [ page EXCEPT
                   !.stage = "links",
                   !.extracted_links =
                       IF config.mode = "recursive"
                       THEN ExtractedLinks(doc.hrefs) ELSE << >> ]
    /\ UNCHANGED << config, has_callback, site, pc, seed, results,
                    visited_urls, pending_urls, total_urls_estimate,
                    completed_count, elapsed, since_update, answers,
                    future_to_url, work_queue, done, dispatched, failed_urls,
                    last_progress, written, zip_path, titles, references_dir,
                    index_rows, archive, doc, open_files, lost_links >>

\* title = soup.title.string if soup.title else "No Title"; title = ...
TitleResolution ==
    /\ pc = "process_url"
    /\ page.stage = "links"
    /\ page' = [ page EXCEPT !.stage = "title",
                              !.title = ResolveTitle(doc.title_tag) ]
    /\ UNCHANGED << config, has_callback, site, pc, seed, results,
                    visited_urls, pending_urls, total_urls_estimate,
                    completed_count, elapsed, since_update, answers,
                    future_to_url, work_queue, done, dispatched, failed_urls,
                    last_progress, written, zip_path, titles, references_dir,
                    index_rows, archive, doc, open_files, lost_links >>

\* filename = self._slugify(title) + ".md" ...
FilenameDerivation ==
    /\ pc = "process_url"
    /\ page.stage = "title"
    /\ page' = [ page EXCEPT !.stage = "named",
                              !.filename = Filename(page.title) ]
    /\ UNCHANGED << config, has_callback, site, pc, seed, results,
                    visited_urls, pending_urls, total_urls_estimate,
                    completed_count, elapsed, since_update, answers,
                    future_to_url, work_queue, done, dispatched, failed_urls,
                    last_progress, written, zip_path, titles, references_dir,
                    index_rows, archive, doc, open_files, lost_links >>

NextTransform ==
    \/ ExtractLinks
    \/ TitleResolution
    \/ FilenameDerivation

SpecTransform == InitTransform /\ [][NextTransform]_vars

----------------------------------------------------------------------------
(* The states of the crawl scheduler.                                      *)

Draining == pc \in {"submit_initial", "wait", "handle", "refill"}

ResultUrls == { results[i].url : i \in DOMAIN results }

DispatchedUrls == { u \in site : dispatched[u] > 0 }

HasFailedResult(u) ==
    \E i \in DOMAIN results : results[i].url = u /\ results[i].status = "failed"

IsInFlight(u) == \E f \in InFlight : future_to_url[f].url = u

----------------------------------------------------------------------------
(* Claims.                                                                 *)

\* C1: in every run, sitemap or recursive, and for every interleaving of
\* worker completions, no URL is submitted to the pool more than once, and at
\* every step the size of visited_urls is the number of distinct URLs
\* submitted so far.
C1_NoUrlDispatchedTwice ==
    /\ \A u \in site : dispatched[u] <= 1
    /\ Cardinality(visited_urls) = Cardinality(DispatchedUrls)

\* C1 witness: a finished recursive run in which a later page linked back to
\* the base URL, which had been dispatched before.
C1_Witness ==
    /\ pc = "done"
    /\ \E i \in DOMAIN results :
         /\ results[i].url # config.base_url
         /\ config.base_url \in results[i].extracted_links
    /\ dispatched[config.base_url] = 1

\* C2: in every recursive run the number of URLs dispatched (visited_urls)
\* never exceeds max_pages, so the result list has at most max_pages entries.
C2_DispatchedWithinMaxPages ==
    config.mode = "recursive" =>
        /\ Cardinality(visited_urls) <= config.max_pages
        /\ Len(results) <= config.max_pages

\* C3, as stated: while draining, the futures submitted and not yet consumed
\* (future_to_url) never number more than max_threads.
C3_InFlightWithinThreads ==
    Draining => Cardinality(InFlight) <= config.max_threads

\* C3, amended: at every step, in both modes, the units of work executing at
\* once in the pool never number more than max_threads (the futures
\* submitted and not yet consumed may).
C3_RunningWithinThreads ==
    Cardinality(Running) <= config.max_threads

\* C3 witness: every thread is busy and more futures are in flight than there
\* are threads.
C3_Witness ==
    /\ Draining
    /\ Cardinality(Running) = config.max_threads
    /\ Cardinality(InFlight) > config.max_threads

\* The state part of C4: once seeding has succeeded run() does not fail; a
\* fetch or transform that raised leaves a failed PageResult for its URL in
\* the future and, once consumed, in the result list; a finished run has
\* returned the archive path and holds a failed entry for every such URL.
C4_FailureRecorded ==
    /\ seed.status = "ok" => pc # "failed"
    /\ \A f \in Finished :
         future_to_url[f].raised # "" =>
             /\ future_to_url[f].result.status = "failed"
             /\ future_to_url[f].result.url = future_to_url[f].url
    /\ \A u \in failed_urls : IsInFlight(u) \/ HasFailedResult(u)
    /\ pc = "done" =>
         /\ zip_path # "none"
         /\ \A u \in failed_urls : HasFailedResult(u)
         /\ ResultUrls = visited_urls

\* C4: a fetch or transform failure of a single URL is recorded as a failed
\* PageResult for that URL and never aborts the run: after a successful
\* seeding FAILED is unreachable, and the run reaches DONE with an archive
\* path and a result list that contains the failed entries.
C4_FailureNeverAbortsRun ==
    /\ []C4_FailureRecorded
    /\ (seed.status = "ok") ~> (pc = "done")

\* C4 witness: a finished run with a failed page and a successful page
\* consumed after it.
C4_Witness ==
    /\ pc = "done"
    /\ Len(results) >= 2
    /\ results[1].status = "failed"
    /\ results[2].status = "success"

\* C5: when seeding fails (the sitemap fetch ends in an error, or the base URL
\* is missing in recursive mode) run() raises, no URL is ever dispatched and
\* no index document, metadata snapshot or archive is produced.
C5_SeedFailureIsFatal ==
    seed.status = "error" =>
        /\ pc = "failed"
        /\ DispatchedUrls = {}
        /\ InFlight = {}
        /\ written = {}
        /\ zip_path = "none"

\* C5 witness: a sitemap run that failed in seeding.
C5_Witness ==
    /\ config.mode = "sitemap"
    /\ seed.status = "error"
    /\ pc = "failed"

\* C6: in sitemap mode, a sitemap that is fetched but yields no URL makes the
\* run fail, and no bundle (index, metadata, archive) is produced.
C6_EmptySitemapIsFatal ==
    (config.mode = "sitemap" /\ seed.status = "ok" /\ total_urls_estimate = 0) =>
        /\ pc \notin {"finalizing", "done"}
        /\ written = {}
        /\ zip_path = "none"

\* C7: exactly one PageResult is appended for each dispatched URL: no two
\* entries of the result list have the same url, every entry's url is in
\* visited_urls, and at DONE the result urls are exactly visited_urls.
C7_OneResultPerDispatch ==
    /\ \A i, j \in DOMAIN results : results[i].url = results[j].url => i = j
    /\ \A i \in DOMAIN results : results[i].url \in visited_urls
    /\ pc = "done" => ResultUrls = visited_urls

\* C7 witness: a finished run with two results, one of them failed.
C7_Witness ==
    /\ pc = "done"
    /\ Len(results) = 2
    /\ \E i \in DOMAIN results : results[i].status = "failed"

\* The answers a fetch got before its last one.
Earlier(fut) == SubSeq(fut.responses, 1, Len(fut.responses) - 1)

LastAnswer(fut) == fut.responses[Len(fut.responses)]

AllTransient(answers_seq) ==
    \A i \in DOMAIN answers_seq : answers_seq[i] \in status_forcelist

\* The state part of C8: a fetch does not give up on a transient status while
\* retries remain, and a fetch answered by k <= max_retries transient statuses
\* and then by 200 returns a success PageResult after exactly k retry delays
\* (unless the transformation of the page itself raised).
C8_RetriedFetch ==
    \A f \in Finished :
        LET fut == future_to_url[f]
            k == Len(fut.responses) - 1
        IN  /\ (LastAnswer(fut) \in status_forcelist) => k = config.max_retries
            /\ ( /\ LastAnswer(fut) = 200
                 /\ AllTransient(Earlier(fut))
                 /\ k <= config.max_retries
                 /\ fut.raised # "TransformError" )
               => /\ fut.result.status = "success"
                  /\ fut.result.url = fut.url
                  /\ fut.sleeps = k

\* The step part of C8: the driving loop appends the PageResult of a future
\* it consumes as the worker returned it.
C8_RecordedAsReturned ==
    \A f \in InFlight :
        f \notin DOMAIN future_to_url' =>
            results' = Append(results, future_to_url[f].result)

\* C8: a URL whose server answers a transient status (429, 500, 502, 503,
\* 504) k times and then 200, with k <= max_retries, is recorded as a success
\* PageResult after exactly k retries; 503, 503, 200 with max_retries = 3
\* gives success after exactly 2 retry delays.
C8_TransientThenOkSucceeds ==
    /\ []C8_RetriedFetch
    /\ [][C8_RecordedAsReturned]_vars

\* C8 witness: 503, 503, 200 with max_retries = 3, returned as success after
\* two retry delays.
C8_Witness ==
    /\ config.max_retries = 3
    /\ \E f \in Finished :
         /\ future_to_url[f].responses = << 503, 503, 200 >>
         /\ future_to_url[f].result.status = "success"
         /\ future_to_url[f].sleeps = 2

\* The part of C9 about the number of attempts and the outcome: a fetch makes
\* at most 1 + max_retries attempts; a non-transient error status ends the
\* fetch at once (one attempt when it is the first answer) with a failed
\* PageResult; a transient status that persists through all max_retries
\* retries ends it with a failed PageResult; in neither case does an error
\* leave process_url: the future holds a PageResult and run() does not fail.
C9_AttemptsAndOutcome ==
    /\ \A f \in InFlight :
         LET fut == future_to_url[f]
         IN  /\ Len(fut.responses) <= 1 + config.max_retries
             /\ fut.sleeps <= config.max_retries
             /\ \A i \in DOMAIN fut.responses :
                  ( /\ fut.responses[i] >= 400
                    /\ fut.responses[i] \notin status_forcelist )
                  => /\ i = Len(fut.responses)
                     /\ fut.state = "finished"
                     /\ fut.result.status = "failed"
             /\ ( /\ fut.state = "finished"
                  /\ LastAnswer(fut) \in status_forcelist )
                => /\ Len(fut.responses) = 1 + config.max_retries
                   /\ fut.result.status = "failed"
             /\ fut.state = "finished" =>
                  /\ fut.result.status \in {"success", "failed"}
                  /\ fut.result.url = fut.url
    /\ seed.status = "ok" => pc # "failed"

\* C9, as stated: the attempts and outcomes above, and every answer that was
\* followed by another attempt is one of the statuses 429, 500, 502, 503, 504.
C9_RetriesOnlyOnTransientStatus ==
    /\ C9_AttemptsAndOutcome
    /\ \A f \in InFlight : AllTransient(Earlier(future_to_url[f]))

\* C9, amended: the attempts and outcomes above, and every answer that was
\* followed by another attempt is one of the statuses 429, 500, 502, 503, 504
\* or a network error (no HTTP status at all); no other HTTP status is
\* retried.
C9_FetcherRetryContract ==
    /\ C9_AttemptsAndOutcome
    /\ \A f \in InFlight :
         \A i \in DOMAIN Earlier(future_to_url[f]) :
             \/ future_to_url[f].responses[i] \in status_forcelist
             \/ future_to_url[f].responses[i] = NetworkError

\* C9 witness: a network error that was retried, then a 503 that persisted
\* through the last retry, returned as failed.
C9_Witness ==
    /\ config.max_retries = 2
    /\ \E f \in Finished :
         /\ future_to_url[f].responses = << NetworkError, 503, 503 >>
         /\ future_to_url[f].result.status = "failed"

\* C10, as stated: with a progress sink configured, every completion the
\* driving loop consumes is followed by a call of the sink before the next
\* completion is handled.
C10_NotifiedOnEveryCompletion ==
    [][ (has_callback /\ completed_count' = completed_count + 1)
        => last_progress'.calls > last_progress.calls ]_vars

\* C10, amended: with a progress sink configured, a completion is followed by
\* one call of the sink exactly when more than 0.1 s has passed since the
\* last call made in the loop (always for the first completion); a completion
\* handled within 0.1 s of the last call, or without a sink, gives none.
C10_NotifiedUnlessThrottled ==
    [][ completed_count' = completed_count + 1 =>
          IF has_callback /\ elapsed' > ThrottleTenths
          THEN /\ last_progress'.calls = last_progress.calls + 1
               /\ last_progress'.completed = completed_count'
          ELSE last_progress' = last_progress ]_vars

\* C10 witness: the second completion was handled within 0.1 s of the
\* notification of the first and gave none.
C10_Witness ==
    /\ has_callback
    /\ completed_count = 2
    /\ last_progress.completed = 1
    /\ elapsed <= ThrottleTenths

\* The positions of `scraped_data` that hold a successful item of that
\* filename.
SuccessesNamed(scraped_data, filename) ==
    { i \in DOMAIN scraped_data :
        /\ scraped_data[i].status = "success"
        /\ scraped_data[i].filename = filename }

FirstOf(positions) == CHOOSE i \in positions : \A j \in positions : i <= j

\* C11: for every result list, the index table of SKILL.md has exactly one
\* row for each distinct filename among the successful results, the row
\* carries the title of the earliest such result, the rows are in the order
\* of those first occurrences, and no failed result gives a row.
C11_IndexDeduplicatedByFilename ==
    pc \in {"indexed", "done"} =>
        LET names == { results[i].filename :
                         i \in { j \in DOMAIN results : results[j].status = "success" } }
            first(k) == FirstOf(SuccessesNamed(results, index_rows[k].filename))
        IN  /\ { index_rows[k].filename : k \in DOMAIN index_rows } = names
            /\ Len(index_rows) = Cardinality(names)
            /\ \A k \in DOMAIN index_rows :
                 index_rows[k].title = results[first(k)].title
            /\ \A k, l \in DOMAIN index_rows : k < l => first(k) < first(l)
            /\ \A i \in DOMAIN results :
                 results[i].status = "failed" =>
                     \A k \in DOMAIN index_rows :
                         index_rows[k].filename # results[i].filename

\* C11 witness: two successful items of one filename and different titles
\* with a failed item between them: one row, with the title of the earlier.
C11_Witness ==
    /\ pc = "indexed"
    /\ Len(results) = 3
    /\ results[1].status = "success" /\ results[1].title = << "A" >>
    /\ results[2].status = "failed"
    /\ results[3].status = "success" /\ results[3].title = << "a" >>
    /\ Len(index_rows) = 1
    /\ index_rows[1].title = << "A" >>

SuccessfulResults == { i \in DOMAIN results : results[i].status = "success" }

C13_SitemapFrontierSeededOnce ==
    (config.mode = "sitemap" /\ seed.status = "ok") =>
        /\ DispatchedUrls \subseteq seed.urls
        /\ visited_urls \subseteq seed.urls
        /\ pending_urls \subseteq seed.urls
        /\ total_urls_estimate = Cardinality(seed.urls)
        /\ pc # "submit_initial" =>
              /\ pending_urls = {}
              /\ visited_urls = seed.urls
              /\ \A u \in seed.urls : dispatched[u] = 1
              /\ \A u \in site \ seed.urls : dispatched[u] = 0
        /\ pc \in {"finalizing", "done"} =>
              /\ Len(results) = Cardinality(seed.urls)
              /\ ResultUrls = seed.urls

\* C13 witness: a finished sitemap run over more distinct URLs than
\* max_pages, with one result for each.
C13_Witness ==
    /\ config.mode = "sitemap"
    /\ pc = "done"
    /\ Cardinality(seed.urls) = MaxSitemapLen
    /\ Cardinality(seed.urls) > config.max_pages
    /\ Len(results) = Cardinality(seed.urls)

\* The path of a URL ends in one of the non-page extensions.
PathEndsWithNonPageExtension(u) == EndsWithNonPageExtension(u.path)

\* C14: a resolved href is among a page's extracted links only if its
\* fragment was stripped, its host is the base domain or absent, its scheme
\* is http or https, and its path does not end in .png .jpg .jpeg .gif .pdf
\* .zip .css .js, a query string following the path or not.
C14_ExtractedLinksFiltered ==
    page.stage # "none" =>
        \A i \in DOMAIN page.extracted_links :
            LET link == page.extracted_links[i]
            IN  /\ link.fragment = << >>
                /\ link.netloc \in { BaseDomain, << >> }
                /\ link.scheme \in { Http, Https }
                /\ ~PathEndsWithNonPageExtension(link)

\* C15: the title of a page is the trimmed text of the document's title tag,
\* and "Untitled" when the document has no title tag, when the tag is empty
\* and when the tag holds only whitespace.
C15_TitleTrimmedOrUntitled ==
    page.stage \in {"title", "named"} =>
        page.title =
            IF \/ ~doc.title_tag.present
               \/ Strip(doc.title_tag.string, Whitespace) = << >>
            THEN UntitledText
            ELSE Strip(doc.title_tag.string, Whitespace)

\* ^[a-z0-9-]+\.md$
MatchesSlugPattern(filename) ==
    /\ Len(filename) > Len(DotMd)
    /\ EndsWith(filename, DotMd)
    /\ \A i \in 1..(Len(filename) - Len(DotMd)) :
         filename[i] \in AsciiLower \cup Digits \cup { "-" }

\* C16: for every title the filename matches ^[a-z0-9-]+\.md$ (untitled.md
\* included) and is at most 104 characters long.
C16_FilenameWellFormed ==
    page.stage = "named" =>
        /\ MatchesSlugPattern(page.filename) \/ page.filename = UntitledSlug \o DotMd
        /\ Len(page.filename) <= FilenameLimit + 4

\* Nothing is in flight, and pending_urls is empty or the page ceiling is
\* reached.
ExitCondition ==
    /\ InFlight = {}
    /\ pending_urls = {} \/ completed_count >= config.max_pages

\* The state part of C17: while the bundle is written and after it, and
\* whenever the loop test finds nothing in flight, the exit condition holds.
C17_ExitConditionHolds ==
    seed.status = "ok" =>
        /\ pc \in {"finalizing", "done"} => ExitCondition
        /\ (pc = "wait" /\ InFlight = {}) => ExitCondition

\* The step part of C17: finalizing starts from the loop test only, with
\* nothing in flight, and the loop test leaves the loop whenever nothing is
\* in flight.
C17_FinalizingStartsFromLoopTest ==
    /\ (pc # "finalizing" /\ pc' = "finalizing") => (pc = "wait" /\ InFlight = {})
    /\ (pc = "wait" /\ InFlight = {} /\ pc' # pc) => pc' = "finalizing"
    /\ (pc = "wait" /\ InFlight # {}) => pc' # "finalizing"

\* C17: the driving loop leaves DRAINING and starts FINALIZING exactly when
\* nothing is in flight and pending is empty or the page ceiling is reached
\* (completed_count >= max_pages); finalization never starts while a unit is
\* in flight.
C17_FinalizationExactlyAtExit ==
    /\ []C17_ExitConditionHolds
    /\ [][C17_FinalizingStartsFromLoopTest]_vars

\* C17 witness: a recursive run starts finalizing at the page ceiling with
\* links still pending.
C17_Witness ==
    /\ config.mode = "recursive"
    /\ pc = "finalizing"
    /\ InFlight = {}
    /\ pending_urls # {}
    /\ completed_count >= config.max_pages

\* C18: with fair workers and max_threads >= 1 every run eventually reaches
\* DONE or FAILED; a recursive run does so although the site always has
\* pages it has not seen, because the page ceiling stops the dispatch.
C18_RunTerminates ==
    /\ <>(pc \in {"done", "failed"})
    /\ [](visited_urls # site)

\* C18 witness: a recursive run is done, every page it fetched linked to a
\* page never seen before, and links are still pending.
C18_Witness ==
    /\ pc = "done"
    /\ config.mode = "recursive"
    /\ results # << >>
    /\ \A i \in DOMAIN results :
         /\ results[i].status = "success"
         /\ results[i].extracted_links \ visited_urls # {}
    /\ pending_urls # {}

\* The URLs some recorded successful result links to.
LinkedBySuccess ==
    UNION { results[i].extracted_links : i \in SuccessfulResults }

\* C19: in recursive mode the frontier is seeded with the base URL alone and
\* grows only through successful fetches: every URL pending or dispatched is
\* the base URL or a link of a successful result the loop has already
\* recorded; failed results carry no links.
C19_RecursiveFrontierGrowth ==
    (config.mode = "recursive" /\ seed.status = "ok") =>
        /\ seed.urls = { config.base_url }
        /\ pc = "submit_initial" => pending_urls = { config.base_url }
        /\ visited_urls \cup pending_urls \subseteq { config.base_url } \cup LinkedBySuccess
        /\ DispatchedUrls \subseteq { config.base_url } \cup LinkedBySuccess
        /\ \A i \in DOMAIN results :
             results[i].status = "failed" => results[i].extracted_links = {}
        /\ \A f \in Finished :
             future_to_url[f].result.status = "failed" =>
                 future_to_url[f].result.extracted_links = {}

\* C19 witness: a finished recursive run whose base page linked to a second
\* page, which was dispatched after it and failed.
C19_Witness ==
    /\ config.mode = "recursive"
    /\ pc = "done"
    /\ Len(results) = 2
    /\ results[1].url = config.base_url
    /\ results[1].status = "success"
    /\ results[2].url \in results[1].extracted_links
    /\ results[2].status = "failed"

\* The result the loop has just appended, when a step handles a completion.
Consumed == results'[Len(results')]

\* The links a handled completion discovers.
Discovered ==
    IF config.mode = "recursive" /\ Consumed.status = "success"
    THEN Consumed.extracted_links ELSE {}

\* pending_urls and visited_urls are disjoint.
C20_PendingDisjointFromVisited == pending_urls \cap visited_urls = {}

\* visited_urls only grows.
C20_VisitedOnlyGrows == visited_urls \subseteq visited_urls'

\* The step part of C20 as stated: when a completion is handled, each link it
\* discovers is in pending_urls afterwards if and only if it is not visited,
\* and nothing else is added.
C20_OfferedIffNotVisited ==
    completed_count' = completed_count + 1 =>
        /\ \A link \in Discovered : link \in pending_urls' <=> link \notin visited_urls
        /\ pending_urls' \ pending_urls \subseteq Discovered

C20_OfferedUnlessSinkRaised ==
    completed_count' = completed_count + 1 =>
        \/ pending_urls' = pending_urls \cup (Discovered \ visited_urls)
        \/ /\ pending_urls' = pending_urls
           /\ last_progress'.calls = last_progress.calls + 1

C21_WorkerLeavesFrontier ==
    Worker => UNCHANGED << visited_urls, pending_urls, results, completed_count >>

\* The step part of C21 about the driving loop: visited_urls changes only
\* where run() submits, results and completed_count only where it handles a
\* completion, and a URL enters pending_urls only in seeding or as a link of
\* the result of the future the loop has just popped and recorded.
C21_FrontierFedByConsumption ==
    /\ visited_urls' # visited_urls => pc \in {"submit_initial", "refill"}
    /\ (results' # results \/ completed_count' # completed_count) => pc = "handle"
    /\ ~(pending_urls' \subseteq pending_urls) =>
         \/ pc = "seeding"
         \/ /\ pc = "handle"
            /\ \E f \in done :
                 /\ f \notin DOMAIN future_to_url'
                 /\ results' = Append(results, future_to_url[f].result)
                 /\ pending_urls' \ pending_urls
                        \subseteq future_to_url[f].result.extracted_links

\* C21: only the driving loop mutates the frontier: a worker step leaves
\* visited, pending, the result list and the completed count unchanged, and
\* discovered links reach pending only through the worker's returned result,
\* when the driving loop consumes that completion.
C21_OnlyDrivingLoopMutatesFrontier ==
    [][C21_WorkerLeavesFrontier /\ C21_FrontierFedByConsumption]_vars

\* C21 witness: a worker has returned a successful result with a link to a
\* page not visited, the loop has not consumed it, and the link is not
\* pending.
C21_Witness ==
    /\ config.mode = "recursive"
    /\ \E f \in Finished :
         /\ future_to_url[f].result.status = "success"
         /\ future_to_url[f].result.extracted_links \ visited_urls # {}
         /\ future_to_url[f].result.extracted_links \cap pending_urls = {}

\* The filenames that two or more successful results derive.
SharedFilenames ==
    { results[i].filename : i \in { j \in SuccessfulResults :
          \E k \in SuccessfulResults : k # j /\ results[k].filename = results[j].filename } }

\* C22: when two successful results of one run derive the same filename,
\* after the run exactly one reference file of that name exists and it holds
\* the content of whichever worker wrote last, while the one index row of
\* that filename carries the title of the earlier result in the order of the
\* result list.
C22_LastWriterOnDiskFirstResultInIndex ==
    pc = "done" =>
        \A name \in SharedFilenames :
            /\ Cardinality({ e \in references_dir : e.name = name }) = 1
            /\ FileNamed(references_dir, name).content
                  = FileNamed(references_dir, name).last_content
            /\ Cardinality({ k \in DOMAIN index_rows : index_rows[k].filename = name }) = 1
            /\ \A k \in DOMAIN index_rows :
                 index_rows[k].filename = name =>
                     index_rows[k].title
                        = results[FirstOf(SuccessesNamed(results, name))].title

\* The state part of C23: the fraction of the last notification, num / den,
\* is within 0..1; in sitemap mode it is min(1, completed / number of
\* distinct sitemap URLs), and 0 for the notification made before the
\* sitemap is read; in recursive mode it is 1/2.
C23_FractionOfLastNotification ==
    last_progress.calls > 0 =>
        /\ last_progress.den > 0
        /\ 0 <= last_progress.num /\ last_progress.num <= last_progress.den
        /\ config.mode = "sitemap" =>
              IF last_progress.completed = 0
              THEN last_progress.num = 0
              ELSE last_progress.num * Cardinality(seed.urls)
                     = Min(last_progress.completed, Cardinality(seed.urls))
                          * last_progress.den
        /\ config.mode = "recursive" => last_progress.num * 2 = last_progress.den

\* The step part of C23: in sitemap mode a notification never carries a
\* smaller fraction than the one before it.
C23_FractionNeverDecreases ==
    (config.mode = "sitemap" /\ last_progress'.calls > last_progress.calls) =>
        last_progress'.num * last_progress.den
            >= last_progress.num * last_progress'.den

\* C23: every progress notification carries a fraction within 0.0..1.0: in
\* sitemap mode it is min(1, completed / number of distinct sitemap URLs) and
\* never decreases from one notification to the next, in recursive mode it
\* is the constant 0.5.
C23_ProgressFraction ==
    /\ []C23_FractionOfLastNotification
    /\ [][C23_FractionNeverDecreases]_vars

\* C23 witness: a sitemap run of two pages has notified the sink of the
\* sitemap fetch and of both completions, the last time with fraction 1.
C23_Witness ==
    /\ config.mode = "sitemap"
    /\ Cardinality(seed.urls) = 2
    /\ last_progress.calls = 3
    /\ last_progress.completed = 2
    /\ last_progress.num = last_progress.den

\* The submissions to the pool so far, each url counted as often as it was
\* submitted.
Submissions == { << u, k >> \in site \X (1..Cardinality(site)) : k <= dispatched[u] }

\* C24: in every recursive run with max_pages >= 1 and max_threads >= 1 the
\* URLs ever dispatched number at most max_pages - 1 + 2 * max_threads.
C24_DispatchedWithinCeilingPlusBuffer ==
    config.mode = "recursive" =>
        /\ Cardinality(Submissions)
              <= config.max_pages - 1 + BufferFactor * config.max_threads
        /\ Cardinality(visited_urls)
              <= config.max_pages - 1 + BufferFactor * config.max_threads

\* C24 witness: a finished recursive run that dispatched
\* max_pages - 1 + 2 * max_threads URLs, more than max_pages.
C24_Witness ==
    /\ config.mode = "recursive"
    /\ pc = "done"
    /\ Len(results) = config.max_pages - 1 + BufferFactor * config.max_threads
    /\ Cardinality(Submissions) = Len(results)
    /\ Len(results) > config.max_pages

\* C25: in every recursive run with max_threads >= 1, at every step the
\* units submitted and not yet consumed (future_to_url) number at most
\* 2 * max_threads.
C25_InFlightWithinBuffer ==
    config.mode = "recursive" =>
        Cardinality(InFlight) <= BufferFactor * config.max_threads

\* C25 witness: a refill pass has filled the buffer, twice as many units in
\* flight as there are threads, and left a link pending.
C25_Witness ==
    /\ config.mode = "recursive"
    /\ pc = "refill"
    /\ completed_count > 0
    /\ Cardinality(InFlight) = BufferFactor * config.max_threads
    /\ pending_urls # {}

\* The positions of the result list that hold the result of `u`.
ResultsOf(u) == { i \in DOMAIN results : results[i].url = u }

\* C26: between completions, completed_count is the length of the result
\* list and completed_count plus the number in flight is the size of
\* visited_urls: every visited URL is either in flight or has exactly one
\* recorded result, never both and never neither, and nothing else is in
\* flight or recorded.
C26_VisitedInFlightOrRecorded ==
    /\ completed_count = Len(results)
    /\ completed_count + Cardinality(InFlight) = Cardinality(visited_urls)
    /\ \A u \in visited_urls :
         \/ IsInFlight(u) /\ ResultsOf(u) = {}
         \/ ~IsInFlight(u) /\ Cardinality(ResultsOf(u)) = 1
    /\ \A u \in site \ visited_urls : ~IsInFlight(u) /\ ResultsOf(u) = {}

\* C26 witness: a recursive run between two completions, with one URL
\* recorded, two in flight and all three visited.
C26_Witness ==
    /\ config.mode = "recursive"
    /\ pc = "wait"
    /\ completed_count = 1
    /\ Cardinality(InFlight) = 2
    /\ Cardinality(visited_urls) = 3

\* The state part of C27: after a successful seeding the run does not fail,
\* and a page whose only link among the recorded successful results was lost
\* to a raising sink is neither pending nor ever dispatched.
C27_LostLinksNeverDispatched ==
    /\ seed.status = "ok" => pc # "failed"
    /\ \A u \in lost_links :
         LET linking == { i \in SuccessfulResults : u \in results[i].extracted_links }
         IN  /\ linking # {}
             /\ Cardinality(linking) = 1 =>
                   /\ u \notin pending_urls \cup visited_urls
                   /\ dispatched[u] = 0
                   /\ ResultsOf(u) = {}

\* The step part of C27: every handled completion is recorded and counted,
\* and leaves the loop running; when the sink raised with links to offer,
\* it had been called in that step, the mode is recursive, the links are
\* those of the page just recorded and pending_urls is left as it was.
C27_RecordedButNotOffered ==
    completed_count' = completed_count + 1 =>
        /\ results' = Append(results, Consumed)
        /\ pc' \in {"handle", "wait", "refill"}
        /\ lost_links' # lost_links =>
              /\ config.mode = "recursive"
              /\ last_progress'.calls = last_progress.calls + 1
              /\ lost_links' = lost_links \cup (Discovered \ (visited_urls \cup pending_urls))
              /\ pending_urls' = pending_urls

\* C27: if the progress sink raises while the driving loop handles a
\* completion in recursive mode, the run does not abort and the completion's
\* PageResult stays recorded and counted, but the links of that page are not
\* offered to the frontier, so pages reachable only through it are never
\* dispatched.
C27_SinkFailureLosesLinks ==
    /\ []C27_LostLinksNeverDispatched
    /\ [][C27_RecordedButNotOffered]_vars

\* C27 witness: a recursive run is done below the page ceiling; the base page
\* linked to page 2, the sink raised while the base page's completion was
\* handled, and page 2 was never dispatched.
C27_Witness ==
    /\ config.mode = "recursive"
    /\ has_callback
    /\ pc = "done"
    /\ completed_count < config.max_pages
    /\ Len(results) = 1
    /\ results[1].status = "success"
    /\ lost_links = { 2 }
    /\ dispatched[2] = 0

====
